---- MODULE Spec2Model ----
(***************************************************************************)
(* A model of src/render_models.rs: the safe layer around the OpenVR       *)
(* IVRRenderModels function table.  Caller threads run load, load_async,   *)
(* load_texture, load_texture_async, get_count, get_name and drop their    *)
(* handles; the driver behind the function table is the environment.       *)
(***************************************************************************)
EXTENDS Integers, Sequences, FiniteSets, TLC

(* ------------------------------ bounds --------------------------------- *)

\* Most Loading answers the driver gives for one resource before it finishes.
MaxLoading == 1
\* Most handles created in one run.
MaxHandles == 2
\* Most entries of the driver's catalog.
MaxCatalog == 1
\* Most driver polls of one blocking call that the model follows: enough
\* to see every answer of a load that finishes, and a load that never does.
MaxPolls == MaxLoading + 2

\* Two caller threads.
Threads == {1, 2}

(* ------------------------- program constants --------------------------- *)

\* EVRRenderModelError_VRRenderModelError_None
VRRenderModelError_None == 0
\* EVRRenderModelError_VRRenderModelError_Loading
VRRenderModelError_Loading == 100
\* The other codes of the closed enumeration (two representatives).
TerminalCodes == {300, 301}
Codes == {VRRenderModelError_None, VRRenderModelError_Loading} \cup TerminalCodes
\* What the driver answers once a load is no longer in progress.
DefinitiveCodes == Codes \ {VRRenderModelError_Loading}

\* The function tables: the one the subsystem registry hands out, and
\* another one a caller may pass to from_raw.
GlobalTable == "global"
Tables == {GlobalTable, "injected"}

\* Model names as byte strings; the last one has an interior NUL byte.
Names == {<<97>>, <<98>>, <<97, 0, 98>>}
\* Texture identifiers the driver embeds in the model blocks.
TexIds == {7, 8}
\* Driver-owned addresses; NullPtr is null_mut().
NullPtr == 0
Ptrs == 1..MaxHandles

VARIABLES
    iface,      \* iface[t]: the pointer held by thread t's IVRRenderModels
    drvModel,   \* driver: progress of each model name's background load
    drvTex,     \* driver: progress of each texture id's background load
    mem,        \* driver: its blocks, by address
    handles,    \* every RenderModel / RenderModelTexture ever created
    pc,         \* pc[t]: where thread t stands
    op,         \* op[t]: the operation thread t is running
    arg,        \* arg[t]: its argument (a name, a handle, an index)
    res,        \* res[t]: the value the running or last operation produced
    trace,      \* trace[t]: driver calls and sleeps of the current operation
    catalog,    \* driver: the names of its model catalog, in index order
    view        \* view[t]: the iterator or the pixel copy thread t holds

vars == <<view, catalog, iface, drvModel, drvTex, mem, handles, pc, op, arg, res, trace>>

(* ------------------------------ driver --------------------------------- *)

\* The texture identifier the driver stores in the block of model n.
TexIdOf(n) == IF n = <<97>> THEN 7 ELSE 8

DrvIdle == [st |-> "idle", left |-> 0, code |-> VRRenderModelError_None]
FreeBlock == [refs |-> 0, kind |-> "free", name |-> <<>>, tex |-> 0]

\* A first call starts the background load: it will answer Loading some
\* number of times, or for ever.
DrvStart(d) ==
    IF d.st = "idle"
    THEN {[st |-> "loading", left |-> k, code |-> VRRenderModelError_None] :
              k \in 0..MaxLoading}
         \cup {[st |-> "hung", left |-> 0, code |-> VRRenderModelError_None]}
    ELSE {d}

\* The answers of a started load: <<status code, next driver state>>.
DrvAnswers(d) ==
    IF d.st = "hung" THEN {<<VRRenderModelError_Loading, d>>}
    ELSE IF d.st = "loading" /\ d.left > 0
    THEN {<<VRRenderModelError_Loading, [d EXCEPT !.left = @ - 1]>>}
    ELSE IF d.st = "loading"
    THEN {<<c, [st |-> "done", left |-> 0, code |-> c]>> : c \in DefinitiveCodes}
    ELSE {<<d.code, d>>}

DrvPoll(d) == UNION {DrvAnswers(s) : s \in DrvStart(d)}

\* The addresses the driver may hand out for a finished resource: the block
\* it already holds for that resource, or an unused address.
DrvAddresses(m, kind, name, tex) ==
    {p \in Ptrs : m[p].refs > 0 /\ m[p].kind = kind
                  /\ m[p].name = name /\ m[p].tex = tex}
    \cup (LET unused == {p \in Ptrs : m[p].refs = 0}
          IN  {p \in unused : \A q \in unused : p <= q})

DrvTake(m, p, kind, name, tex) ==
    [m EXCEPT ![p] = [refs |-> m[p].refs + 1, kind |-> kind,
                      name |-> name, tex |-> tex]]

\* FreeRenderModel / FreeTexture inside the driver.
DrvRelease(m, p) ==
    IF p \in Ptrs /\ m[p].refs > 1 THEN [m EXCEPT ![p].refs = @ - 1]
    ELSE IF p \in Ptrs /\ m[p].refs = 1 THEN [m EXCEPT ![p] = FreeBlock]
    ELSE m

\* A load entry point of the driver: the status, the pointer written to
\* resp (left null unless the load succeeded), the driver's next state.
DrvLoad(d, m, kind, name, tex) ==
    UNION {IF a[1] = VRRenderModelError_None
           THEN {[err |-> a[1], resp |-> p, drv |-> a[2],
                  mem |-> DrvTake(m, p, kind, name, tex)] :
                     p \in DrvAddresses(m, kind, name, tex)}
           ELSE {[err |-> a[1], resp |-> NullPtr, drv |-> a[2], mem |-> m]} :
           a \in DrvPoll(d)}

LoadRenderModel_Async(d, m, name) == DrvLoad(d, m, "model", name, TexIdOf(name))
LoadTexture_Async(d, m, id) == DrvLoad(d, m, "texture", <<>>, id)

\* The bytes of catalog names: "a", and the two bytes of a two-byte UTF-8
\* character, which are well-formed only as a pair in that order.
NameBytes == {97, 195, 169}
CatalogNames == {<<>>, <<97>>, <<195, 169>>, <<169>>}
Catalogs == UNION {[1..k -> CatalogNames] : k \in 0..MaxCatalog}

\* GetRenderModelCount inside the driver.
GetRenderModelCount(cat) == Len(cat)

\* GetRenderModelName inside the driver: 0 for an index outside the catalog,
\* else the name's length with its terminator; the name and its terminator
\* are written when the buffer holds them.
GetRenderModelName(cat, index, len) ==
    IF index >= Len(cat) THEN [ret |-> 0, written |-> <<>>]
    ELSE IF len < Len(cat[index + 1]) + 1
    THEN [ret |-> Len(cat[index + 1]) + 1, written |-> <<>>]
    ELSE [ret |-> Len(cat[index + 1]) + 1, written |-> cat[index + 1] \o <<0>>]

\* The arrays and fields the driver puts in the block of model n:
\* rVertexData with unVertexCount, rIndexData with unTriangleCount.
VertexData(n) == IF n = <<97>> THEN <<31, 32>> ELSE <<33>>
VertexCount(n) == Len(VertexData(n))
IndexData(n) == IF n = <<97>> THEN <<0, 1, 1>> ELSE <<0, 0, 0, 0, 0, 0>>
TriangleCount(n) == Len(IndexData(n)) \div 3

\* ... and in the block of texture x: unWidth, unHeight, rubTextureMapData.
Width(x) == IF x = 7 THEN 2 ELSE 1
Height(x) == IF x = 7 THEN 2 ELSE 1
TextureMapData(x) == [i \in 1..(Width(x) * Height(x) * 4) |-> (x * 16 + i) % 256]

\* What a read of element i of an array finds at address p: the element of
\* the live block, or anything once the driver has taken the block back.
DrvRead(m, p, kind, i) ==
    IF p \in Ptrs /\ m[p].kind = "model" /\ kind = "vertex"
       /\ i \in 1..Len(VertexData(m[p].name))
    THEN {VertexData(m[p].name)[i]}
    ELSE IF p \in Ptrs /\ m[p].kind = "model" /\ kind = "index"
            /\ i \in 1..Len(IndexData(m[p].name))
    THEN {IndexData(m[p].name)[i]}
    ELSE IF p \in Ptrs /\ m[p].kind = "texture" /\ kind = "pixel"
            /\ i \in 1..Len(TextureMapData(m[p].tex))
    THEN {TextureMapData(m[p].tex)[i]}
    ELSE {0, 255}

\* What a copy of elements 1..n of an array finds at address p.
DrvReadAll(m, p, kind, n) ==
    IF \A i \in 1..n : Cardinality(DrvRead(m, p, kind, i)) = 1
    THEN {[i \in 1..n |-> CHOOSE e \in DrvRead(m, p, kind, i) : TRUE]}
    ELSE {[i \in 1..n |-> e] : e \in {0, 255}}

(* ----------------------- records of the wrapper ------------------------ *)

NoArg == [name |-> <<>>, h |-> 0, idx |-> 0]
NoView == [kind |-> "none", h |-> 0, len |-> 0, pos |-> 0, seen |-> <<>>]
NoRes == [tag |-> "None", h |-> 0, code |-> 0, num |-> 0, text |-> <<>>]

\* One entry of trace[t]: a driver call through a function table, or a sleep.
Call(fn, table, name, num, len, ret) ==
    [fn |-> fn, table |-> table, name |-> name, num |-> num, len |-> len,
     ret |-> ret]
Sleep(ms) == Call("sleep", "", <<>>, ms, 0, 0)

\* error.rs: Error::from_raw and Error::to_raw keep the raw code.
Error_from_raw(c) == [tag |-> "Err", h |-> 0, code |-> c, num |-> 0, text |-> <<>>]
to_raw(e) == e.code

\* A classifier that takes every code but None for Loading.
is_loading_any_error(e) == to_raw(e) # VRRenderModelError_None

\* AsyncError::is_loading
is_loading(e) ==
    IF to_raw(e) = VRRenderModelError_Loading THEN TRUE ELSE FALSE

\* subsystems::render_models().unwrap(): the registry's function table.
render_models == GlobalTable

\* A conversion that accepts every name.
CStringNewAlways(name) == TRUE

\* std::ffi::CString::new(name): fails on a NUL byte inside the name.
CStringNewOk(name) == \A i \in 1..Len(name) : name[i] # 0

TypeOK ==
    /\ iface \in [Threads -> Tables]
    /\ pc \in [Threads -> {"idle", "call", "match", "sleep", "second", "ret", "panic"}]
    /\ \A t \in Threads : Len(trace[t]) <= 2 * MaxPolls
    /\ Len(handles) <= MaxHandles
    /\ catalog \in Catalogs

Init ==
    /\ iface = [t \in Threads |-> IF t = 1 THEN GlobalTable ELSE "injected"]
    /\ drvModel = [n \in Names |-> DrvIdle]
    /\ drvTex = [x \in TexIds |-> DrvIdle]
    /\ mem = [p \in Ptrs |-> FreeBlock]
    /\ handles = <<>>
    /\ pc = [t \in Threads |-> "idle"]
    /\ op = [t \in Threads |-> "none"]
    /\ arg = [t \in Threads |-> NoArg]
    /\ res = [t \in Threads |-> NoRes]
    /\ trace = [t \in Threads |-> <<>>]
    /\ catalog = [i \in 1..MaxCatalog |-> <<97>>]
    /\ view = [t \in Threads |-> NoView]

(* --------------------------- caller threads ---------------------------- *)

LoadOps == {"load", "load_async", "load_texture", "load_texture_async"}

\* Handles already created plus the loads that may still create one.
Committed == Len(handles) + Cardinality({u \in Threads : op[u] \in LoadOps})

\* Driver calls (not sleeps) in the current operation of thread t.
Polls(t) == Cardinality({i \in 1..Len(trace[t]) : trace[t][i].fn # "sleep"})

Ok(h) == [tag |-> "Ok", h |-> h, code |-> VRRenderModelError_None,
               num |-> 0, text |-> <<>>]
Panic == [tag |-> "Panic", h |-> 0, code |-> 0, num |-> 0, text |-> <<>>]

\* A handle as the successful load builds it.  The fields rel and at are the
\* record of its destruction: the release calls made for it, and how many
\* loads had succeeded when they were made.
NewHandle(kind, p, t, table) ==
    [kind |-> kind, ptr |-> p, owner |-> t, alive |-> TRUE, via |-> table,
     rel |-> <<>>, at |-> 0]

Begin(t, o, a) ==
    /\ pc[t] = "idle"
    /\ pc' = [pc EXCEPT ![t] = "call"]
    /\ op' = [op EXCEPT ![t] = o]
    /\ arg' = [arg EXCEPT ![t] = a]
    /\ res' = [res EXCEPT ![t] = NoRes]
    /\ trace' = [trace EXCEPT ![t] = <<>>]
    /\ UNCHANGED <<view, catalog, iface, drvModel, drvTex, mem, handles>>

\* A caller invokes IVRRenderModels::load(name).
StartLoad(t, n) ==
    /\ Committed < MaxHandles
    /\ Begin(t, "load", [NoArg EXCEPT !.name = n])

\* A caller invokes IVRRenderModels::load_async(name).
StartLoadAsync(t, n) ==
    /\ Committed < MaxHandles
    /\ Begin(t, "load_async", [NoArg EXCEPT !.name = n])

\* Handles that can still be used after their destruction.
BorrowableAfterDrop(t, kind) ==
    {h \in 1..Len(handles) : handles[h].owner = t /\ handles[h].kind = kind}

\* The models thread t may borrow: alive and its own.
Borrowable(t, kind) ==
    {h \in 1..Len(handles) : handles[h].alive /\ handles[h].owner = t
                             /\ handles[h].kind = kind}

\* A caller invokes RenderModel::load_texture(&self).
StartLoadTexture(t, h) ==
    /\ Committed < MaxHandles
    /\ h \in Borrowable(t, "model")
    /\ Begin(t, "load_texture", [NoArg EXCEPT !.h = h])

\* A caller invokes RenderModel::load_texture_async(&self).
StartLoadTextureAsync(t, h) ==
    /\ Committed < MaxHandles
    /\ h \in Borrowable(t, "model")
    /\ Begin(t, "load_texture_async", [NoArg EXCEPT !.h = h])

\* Where a finished *_async body hands its result: to the caller, or to
\* the match of the blocking loop around it.
AfterAsync(t) == IF op[t] \in {"load", "load_texture"} THEN "match" ELSE "ret"

\* A match that takes only Loading for a failure.
RenderModelMatchLoadingOnly(err) == err # VRRenderModelError_Loading

\* The match on the driver's status in load_async: is a handle built?
RenderModelMatch(err) == err = VRRenderModelError_None

\* The match on the driver's status in load_texture_async.
TextureMatch(err) == err = VRRenderModelError_None

\* IVRRenderModels::load_async, the whole body.
load_async(t) ==
    /\ pc[t] = "call"
    /\ op[t] \in {"load", "load_async"}
    /\ Polls(t) < MaxPolls
    /\ LET name == arg[t].name
           models == iface[t]
       IN  IF ~CStringNewOk(name)
           THEN /\ pc' = [pc EXCEPT ![t] = "panic"]
                /\ res' = [res EXCEPT ![t] = Panic]
                /\ UNCHANGED <<drvModel, mem, handles, trace>>
           ELSE \E o \in LoadRenderModel_Async(drvModel[name], mem, name) :
                  /\ drvModel' = [drvModel EXCEPT ![name] = o.drv]
                  /\ mem' = o.mem
                  /\ trace' = [trace EXCEPT ![t] = Append(@,
                        Call("LoadRenderModel_Async", models, name, 0, 0, o.err))]
                  /\ pc' = [pc EXCEPT ![t] = AfterAsync(t)]
                  /\ IF RenderModelMatch(o.err)
                     THEN /\ handles' = Append(handles,
                                           NewHandle("model", o.resp, t, models))
                          /\ res' = [res EXCEPT ![t] = Ok(Len(handles) + 1)]
                     ELSE /\ res' = [res EXCEPT ![t] = Error_from_raw(o.err)]
                          /\ UNCHANGED handles
    /\ UNCHANGED <<view, catalog, iface, drvTex, op, arg>>

\* A read of another field than diffuseTextureId.
ReadOtherField(m, p) == TexIds \ {m[p].tex}

\* (*self.0).diffuseTextureId: the field of a live model block; a block the
\* driver has taken back may hold anything.
ReadTextureId(m, p) ==
    IF p \in Ptrs /\ m[p].kind = "model" THEN {m[p].tex} ELSE TexIds

\* RenderModel::load_texture_async, the whole body.
load_texture_async(t) ==
    /\ pc[t] = "call"
    /\ op[t] \in {"load_texture", "load_texture_async"}
    /\ Polls(t) < MaxPolls
    /\ LET self == handles[arg[t].h]
           models == render_models
       IN  \E id \in ReadTextureId(mem, self.ptr) :
           \E o \in LoadTexture_Async(drvTex[id], mem, id) :
             /\ drvTex' = [drvTex EXCEPT ![id] = o.drv]
             /\ mem' = o.mem
             /\ trace' = [trace EXCEPT ![t] = Append(@,
                   Call("LoadTexture_Async", models, <<>>, id, 0, o.err))]
             /\ pc' = [pc EXCEPT ![t] = AfterAsync(t)]
             /\ IF TextureMatch(o.err)
                THEN /\ handles' = Append(handles,
                                      NewHandle("texture", o.resp, t, models))
                     /\ res' = [res EXCEPT ![t] = Ok(Len(handles) + 1)]
                ELSE /\ res' = [res EXCEPT ![t] = Error_from_raw(o.err)]
                     /\ UNCHANGED handles
    /\ UNCHANGED <<view, catalog, iface, drvModel, op, arg>>

\* A loop that hands every error to its caller, Loading included.
MatchResultNoRetry(r) == "ret"

\* A loop that retries on every error, terminal ones included.
MatchResultRetryAll(r) == IF r.tag = "Ok" THEN "ret" ELSE "sleep"

\* The match on the result inside the loop of load / load_texture: what the
\* loop does next, "ret" (return the result) or "sleep".
MatchResult(r) ==
    IF r.tag = "Ok" THEN "ret"
    ELSE IF ~is_loading(r) THEN "ret"
    ELSE "sleep"

\* IVRRenderModels::load and RenderModel::load_texture: the match.
load_match(t) ==
    /\ pc[t] = "match"
    /\ pc' = [pc EXCEPT ![t] = MatchResult(res[t])]
    /\ res' = [res EXCEPT ![t] = IF MatchResult(res[t]) = "ret" THEN @ ELSE NoRes]
    /\ UNCHANGED <<view, catalog, iface, drvModel, drvTex, mem, handles, op, arg, trace>>

SleepMillis == 10

\* A sleep that waits until no other thread is inside a blocking load.
load_sleep_shared(t) ==
    /\ pc[t] = "sleep"
    /\ \A u \in Threads \ {t} : pc[u] \notin {"call", "match", "sleep"}
    /\ pc' = [pc EXCEPT ![t] = "call"]
    /\ trace' = [trace EXCEPT ![t] = Append(@, Sleep(SleepMillis))]
    /\ UNCHANGED <<view, catalog, iface, drvModel, drvTex, mem, handles, op, arg, res>>

\* A loop that polls again at once.
load_sleep_skipped(t) ==
    /\ pc[t] = "sleep"
    /\ pc' = [pc EXCEPT ![t] = "call"]
    /\ UNCHANGED <<view, catalog, iface, drvModel, drvTex, mem, handles, op, arg, res, trace>>

\* ... and the sleep that ends an iteration of the loop.
load_sleep(t) ==
    /\ pc[t] = "sleep"
    /\ pc' = [pc EXCEPT ![t] = "call"]
    /\ trace' = [trace EXCEPT ![t] = Append(@, Sleep(SleepMillis))]
    /\ UNCHANGED <<view, catalog, iface, drvModel, drvTex, mem, handles, op, arg, res>>

\* The caller takes the returned value, or the panic is caught, and the
\* thread goes on.
Return(t) ==
    /\ pc[t] \in {"ret", "panic"}
    /\ pc' = [pc EXCEPT ![t] = "idle"]
    /\ op' = [op EXCEPT ![t] = "none"]
    /\ arg' = [arg EXCEPT ![t] = NoArg]
    /\ res' = [res EXCEPT ![t] = NoRes]
    /\ trace' = [trace EXCEPT ![t] = <<>>]
    /\ UNCHANGED <<view, catalog, iface, drvModel, drvTex, mem, handles>>

\* A drop that calls the release entry point twice.
ReleasedTwice(hd, fn) ==
    [hd EXCEPT !.alive = FALSE,
               !.rel = @ \o <<Call(fn, render_models, <<>>, hd.ptr, 0, 0),
                               Call(fn, render_models, <<>>, hd.ptr, 0, 0)>>,
               !.at = Len(handles)]

(* --------------------------- catalog accessors ------------------------- *)

Count(n) == [tag |-> "Count", h |-> 0, code |-> 0, num |-> n, text |-> <<>>]
Text(s) == [tag |-> "Text", h |-> 0, code |-> 0, num |-> 0, text |-> s]

\* A caller invokes IVRRenderModels::get_count().
StartGetCount(t) == Begin(t, "get_count", NoArg)

\* A caller invokes IVRRenderModels::get_name(index).
StartGetName(t, i) == Begin(t, "get_name", [NoArg EXCEPT !.idx = i])

\* IVRRenderModels::get_count, the whole body.
get_count(t) ==
    /\ pc[t] = "call"
    /\ op[t] = "get_count"
    /\ LET models == iface[t]
           n == GetRenderModelCount(catalog)
       IN  /\ trace' = [trace EXCEPT ![t] = Append(@,
                 Call("GetRenderModelCount", models, <<>>, 0, 0, n))]
           /\ res' = [res EXCEPT ![t] = Count(n)]
    /\ pc' = [pc EXCEPT ![t] = "ret"]
    /\ UNCHANGED <<view, catalog, iface, drvModel, drvTex, mem, handles, op, arg>>

\* An early return taken when the size query reports the terminator alone.
RequiredIsOne(required) == required = 1

\* get_name: the early return on `required == 0`.
RequiredIsZero(required) == required = 0

\* get_name, up to the test of the required length: the size query with a
\* zero-capacity buffer.
get_name_first(t) ==
    /\ pc[t] = "call"
    /\ op[t] = "get_name"
    /\ LET models == render_models
           index == arg[t].idx
           required == GetRenderModelName(catalog, index, 0).ret
       IN  /\ trace' = [trace EXCEPT ![t] = Append(@,
                 Call("GetRenderModelName", models, <<>>, index, 0, required))]
           /\ IF RequiredIsZero(required)
              THEN /\ res' = [res EXCEPT ![t] = Text(<<>>)]
                   /\ pc' = [pc EXCEPT ![t] = "ret"]
              ELSE /\ res' = [res EXCEPT ![t] = NoRes]
                   /\ pc' = [pc EXCEPT ![t] = "second"]
    /\ UNCHANGED <<view, catalog, iface, drvModel, drvTex, mem, handles, op, arg>>

\* A buffer length that leaves the terminator out.
BufferLenShort(required) == required - 1

\* get_name: the buffer length handed to the second call.
BufferLen(required) == required

\* A test that lets a shorter name through.
SizeChangedIfLonger(size, required) == size > required

\* get_name: the test `size != required`.
SizeChanged(size, required) == size # required

\* A length that keeps the terminator.
SizeWithTerminator(size) == size

\* get_name: `size - 1` on u32.  A u32 above 2^31 - 1 is written as its
\* two's-complement reading, so 0 - 1 wraps to -1 (that is 2^32 - 1).
SizeWithoutTerminator(size) == size - 1

\* A u32 that a subtraction has wrapped below zero.
Wrapped(n) == n < 0

\* name.set_len(n) after the driver wrote `written`: the first n bytes of
\* the buffer; a byte the driver did not write may hold anything.
SetLen(written, n) ==
    IF n <= 0 THEN {<<>>}
    ELSE {s \in [1..n -> NameBytes \cup {0}] :
             \A i \in 1..n : i <= Len(written) => s[i] = written[i]}

\* String::from_utf8 behind CString::into_string, on the bytes the catalog
\* can hold: one-byte characters, and two-byte characters made of a lead
\* byte and a continuation byte.
RECURSIVE IsUtf8(_)
IsUtf8(s) ==
    IF s = <<>> THEN TRUE
    ELSE IF s[1] < 128 THEN IsUtf8(Tail(s))
    ELSE IF s[1] >= 194 /\ s[1] <= 223 /\ Len(s) >= 2
            /\ s[2] >= 128 /\ s[2] <= 191
    THEN IsUtf8(Tail(Tail(s)))
    ELSE FALSE

\* get_name, from the allocation of the buffer to the end.
get_name_second(t) ==
    /\ pc[t] = "second"
    /\ op[t] = "get_name"
    /\ LET models == render_models
           index == arg[t].idx
           required == trace[t][1].ret
           out == GetRenderModelName(catalog, index, BufferLen(required))
           size == out.ret
       IN  /\ trace' = [trace EXCEPT ![t] = Append(@,
                 Call("GetRenderModelName", models, out.written, index,
                      BufferLen(required), size))]
           /\ IF SizeChanged(size, required)
              THEN /\ res' = [res EXCEPT ![t] = Panic]
                   /\ pc' = [pc EXCEPT ![t] = "panic"]
              ELSE \E name \in SetLen(out.written, SizeWithoutTerminator(size)) :
                     IF IsUtf8(name)
                     THEN /\ res' = [res EXCEPT ![t] = Text(name)]
                          /\ pc' = [pc EXCEPT ![t] = "ret"]
                     ELSE /\ res' = [res EXCEPT ![t] = Panic]
                          /\ pc' = [pc EXCEPT ![t] = "panic"]
    /\ UNCHANGED <<view, catalog, iface, drvModel, drvTex, mem, handles, op, arg>>

\* The driver's catalog changes while callers are at work.
CatalogChange(c) ==
    /\ c # catalog
    /\ catalog' = c
    /\ UNCHANGED <<view, iface, drvModel, drvTex, mem, handles, pc, op, arg, res, trace>>

(* ------------------------------ buffer views --------------------------- *)

\* An iterator whose lifetime is not tied to the RenderModel.
NotBorrowed(t, h) == FALSE

\* slice::Iter<'a, T> borrows the RenderModel it was made from (the elided
\* lifetime of &self): the model cannot be dropped while the iterator lives.
Borrowed(t, h) == view[t].kind \in {"vertex", "index"} /\ view[t].h = h

\* (*self.0).unVertexCount as usize
VertexSliceLen(m, p) == VertexCount(m[p].name)

\* A slice of one index per triangle.
IndexSliceLenPerTriangle(m, p) == TriangleCount(m[p].name)

\* (*self.0).unTriangleCount as usize * 3
IndexSliceLen(m, p) == TriangleCount(m[p].name) * 3

\* RenderModel::vertex_iter
vertex_iter(t, h) ==
    /\ pc[t] = "idle"
    /\ h \in Borrowable(t, "model")
    /\ view[t].kind = "none"
    /\ view' = [view EXCEPT ![t] =
          [kind |-> "vertex", h |-> h,
           len |-> VertexSliceLen(mem, handles[h].ptr), pos |-> 0, seen |-> <<>>]]
    /\ UNCHANGED <<catalog, iface, drvModel, drvTex, mem, handles, pc, op, arg,
                   res, trace>>

\* RenderModel::index_iter
index_iter(t, h) ==
    /\ pc[t] = "idle"
    /\ h \in Borrowable(t, "model")
    /\ view[t].kind = "none"
    /\ view' = [view EXCEPT ![t] =
          [kind |-> "index", h |-> h,
           len |-> IndexSliceLen(mem, handles[h].ptr), pos |-> 0, seen |-> <<>>]]
    /\ UNCHANGED <<catalog, iface, drvModel, drvTex, mem, handles, pc, op, arg,
                   res, trace>>

\* Iterator::next on the slice iterator: the next element, read in place.
iter_next(t) ==
    /\ pc[t] = "idle"
    /\ view[t].kind \in {"vertex", "index"}
    /\ view[t].pos < view[t].len
    /\ \E e \in DrvRead(mem, handles[view[t].h].ptr, view[t].kind, view[t].pos + 1) :
          view' = [view EXCEPT ![t].pos = @ + 1, ![t].seen = Append(@, e)]
    /\ UNCHANGED <<catalog, iface, drvModel, drvTex, mem, handles, pc, op, arg,
                   res, trace>>

\* The caller lets go of the iterator or of the pixel copy.
view_drop(t) ==
    /\ pc[t] = "idle"
    /\ view[t].kind # "none"
    /\ view' = [view EXCEPT ![t] = NoView]
    /\ UNCHANGED <<catalog, iface, drvModel, drvTex, mem, handles, pc, op, arg,
                   res, trace>>

\* RenderModelTexture::dimension
dimension(m, p) == <<Width(m[p].tex), Height(m[p].tex)>>

\* A slice of three bytes per pixel.
PixelSliceLenRGB(d) == d[1] * d[2] * 3

\* to_vec: the length of the slice over rubTextureMapData.
PixelSliceLen(d) == d[1] * d[2] * 4

\* RenderModelTexture::to_vec: the copy is made at once and owned by the
\* caller.
to_vec(t, h) ==
    /\ pc[t] = "idle"
    /\ h \in Borrowable(t, "texture")
    /\ view[t].kind = "none"
    /\ LET p == handles[h].ptr
           n == PixelSliceLen(dimension(mem, p))
       IN  \E vec \in DrvReadAll(mem, p, "pixel", n) :
             view' = [view EXCEPT ![t] =
                [kind |-> "vec", h |-> h, len |-> n, pos |-> n, seen |-> vec]]
    /\ UNCHANGED <<catalog, iface, drvModel, drvTex, mem, handles, pc, op, arg,
                   res, trace>>

\* What a drop leaves of the handle: the release call it made, through the
\* registry's table, with the owned pointer.
Released(hd, fn) ==
    [hd EXCEPT !.alive = FALSE,
               !.rel = Append(@, Call(fn, render_models, <<>>, hd.ptr, 0, 0)),
               !.at = Len(handles)]

\* A drop of the model that takes the driver's texture blocks with it.
drop_RenderModel_cascade(t, h) ==
    /\ pc[t] = "idle"
    /\ h \in Borrowable(t, "model")
    /\ ~Borrowed(t, h)
    /\ handles' = [handles EXCEPT ![h] = Released(@, "FreeRenderModel")]
    /\ mem' = [p \in Ptrs |-> IF mem[p].kind = "texture" THEN FreeBlock
                              ELSE DrvRelease(mem, handles[h].ptr)[p]]
    /\ UNCHANGED <<view, catalog, iface, drvModel, drvTex, pc, op, arg, res, trace>>

\* impl Drop for RenderModel
drop_RenderModel(t, h) ==
    /\ pc[t] = "idle"
    /\ h \in Borrowable(t, "model")
    /\ ~Borrowed(t, h)
    /\ handles' = [handles EXCEPT ![h] = Released(@, "FreeRenderModel")]
    /\ mem' = DrvRelease(mem, handles[h].ptr)
    /\ UNCHANGED <<view, catalog, iface, drvModel, drvTex, pc, op, arg, res, trace>>

\* impl Drop for RenderModelTexture
drop_RenderModelTexture(t, h) ==
    /\ pc[t] = "idle"
    /\ h \in Borrowable(t, "texture")
    /\ handles' = [handles EXCEPT ![h] = Released(@, "FreeTexture")]
    /\ mem' = DrvRelease(mem, handles[h].ptr)
    /\ UNCHANGED <<view, catalog, iface, drvModel, drvTex, pc, op, arg, res, trace>>

Next ==
    \E t \in Threads :
        \/ \E n \in Names : StartLoad(t, n)
        \/ \E n \in Names : StartLoadAsync(t, n)
        \/ \E h \in 1..Len(handles) : StartLoadTexture(t, h)
        \/ \E h \in 1..Len(handles) : StartLoadTextureAsync(t, h)
        \/ load_async(t)
        \/ load_texture_async(t)
        \/ load_match(t)
        \/ load_sleep(t)
        \/ Return(t)
        \/ \E h \in 1..Len(handles) : drop_RenderModel(t, h)
        \/ \E h \in 1..Len(handles) : drop_RenderModelTexture(t, h)

Spec == Init /\ [][Next]_vars

\* The catalog accessors alone, with a catalog that may change under them.
CatalogNext ==
    \/ \E t \in Threads :
          \/ StartGetCount(t)
          \/ \E i \in 0..MaxCatalog : StartGetName(t, i)
          \/ get_count(t)
          \/ get_name_first(t)
          \/ get_name_second(t)
          \/ Return(t)
    \/ \E c \in Catalogs : CatalogChange(c)

\* The two groups of operations share no state: the loads and drops are
\* followed under Spec, the catalog accessors under CatalogSpec.
CatalogSpec == Init /\ [][CatalogNext]_vars

\* The buffer views: non-blocking loads to obtain handles, the iterators
\* and the pixel copy, and the drops.  A handle and its views stay in the
\* thread that made them (a raw pointer is not Send), so one thread is
\* followed.
ViewNext ==
    \E t \in {1} :
        \/ \E n \in Names : StartLoadAsync(t, n)
        \/ \E h \in 1..Len(handles) : StartLoadTextureAsync(t, h)
        \/ load_async(t)
        \/ load_texture_async(t)
        \/ Return(t)
        \/ \E h \in 1..Len(handles) : vertex_iter(t, h)
        \/ \E h \in 1..Len(handles) : index_iter(t, h)
        \/ iter_next(t)
        \/ view_drop(t)
        \/ \E h \in 1..Len(handles) : to_vec(t, h)
        \/ \E h \in 1..Len(handles) : drop_RenderModel(t, h)
        \/ \E h \in 1..Len(handles) : drop_RenderModelTexture(t, h)

ViewSpec == Init /\ [][ViewNext]_vars

\* A thread inside an operation goes on: the driver call returns, the sleep
\* ends, the match is taken.
Step(t) == load_async(t) \/ load_texture_async(t) \/ load_match(t) \/ load_sleep(t)

\* The model loads alone: load, load_async and the drop of a RenderModel.
LoadNext ==
    \E t \in Threads :
        \/ \E n \in Names : StartLoad(t, n)
        \/ \E n \in Names : StartLoadAsync(t, n)
        \/ load_async(t)
        \/ load_match(t)
        \/ load_sleep(t)
        \/ Return(t)
        \/ \E h \in 1..Len(handles) : drop_RenderModel(t, h)

FairSpec == Init /\ [][LoadNext]_vars /\ \A t \in Threads : WF_vars(Step(t))

(* ------------------------------- claims -------------------------------- *)

Blocking == {"load", "load_texture"}
NonBlocking == {"load_async", "load_texture_async"}
Last(q) == q[Len(q)]
ReleaseFn(kind) == IF kind = "model" THEN "FreeRenderModel" ELSE "FreeTexture"

\* C1: a handle has no release call while it is alive, and once destroyed
\* exactly one, made at the matching entry point (FreeRenderModel for a
\* RenderModel, FreeTexture for a RenderModelTexture) with the owned pointer.
C1_ReleasedExactlyOnce ==
    \A h \in 1..Len(handles) :
        LET hd == handles[h]
        IN  /\ hd.alive => hd.rel = <<>>
            /\ ~hd.alive => /\ Len(hd.rel) = 1
                            /\ hd.rel[1].fn = ReleaseFn(hd.kind)
                            /\ hd.rel[1].num = hd.ptr

C1_Witness ==
    /\ \E h \in 1..Len(handles) : handles[h].kind = "model" /\ ~handles[h].alive
    /\ \E h \in 1..Len(handles) : handles[h].kind = "texture" /\ ~handles[h].alive

\* C2: when load or load_texture returns, the result is Ok(handle) or
\* Err(code) with a code other than Loading.
C2_BlockingNeverReturnsLoading ==
    \A t \in Threads :
        (pc[t] = "ret" /\ op[t] \in Blocking) =>
            \/ res[t].tag = "Ok" /\ res[t].h \in 1..Len(handles)
            \/ res[t].tag = "Err" /\ res[t].code # VRRenderModelError_Loading

C2_Witness ==
    \E t \in Threads :
        /\ pc[t] = "ret" /\ op[t] = "load_texture" /\ res[t].tag = "Ok"
        /\ \E i \in 1..Len(trace[t]) : trace[t][i].ret = VRRenderModelError_Loading

\* Thread t has just received the driver's answer to a load entry point.
Answered(t) ==
    /\ pc[t] = "call"
    /\ op[t] \in LoadOps
    /\ Len(trace'[t]) = Len(trace[t]) + 1

\* C3: when the driver answers load_async or load_texture_async with a status
\* other than success, Loading or terminal, the call yields Err with no
\* handle, and the handles (alive or not, with their release calls) and the
\* driver's blocks are as before the call.
C3_FailedLoadMakesNoHandle ==
    [][\A t \in Threads :
          (Answered(t) /\ Last(trace'[t]).ret # VRRenderModelError_None) =>
              /\ res'[t].tag = "Err"
              /\ res'[t].h = 0
              /\ handles' = handles
              /\ mem' = mem]_vars

C3_Witness ==
    \E t \in Threads :
        /\ pc[t] = "ret" /\ op[t] = "load_async" /\ res[t].tag = "Err"
        /\ res[t].code \in TerminalCodes
        /\ \E h \in 1..Len(handles) : handles[h].alive

\* C4: when a poll inside load or load_texture is answered with a terminal
\* code c, the next step of the call returns Err(c): the code is the driver's,
\* and no driver call and no sleep is made after that poll.
C4_TerminalPropagatesAtOnce ==
    [][\A t \in Threads :
          (/\ op[t] \in Blocking
           /\ pc[t] = "match"
           /\ Last(trace[t]).ret \in TerminalCodes) =>
              /\ trace'[t] = trace[t]
              /\ \/ pc'[t] = "match" /\ res'[t] = res[t]
                 \/ /\ pc'[t] = "ret"
                    /\ res'[t].tag = "Err"
                    /\ res'[t].code = Last(trace[t]).ret]_vars

C4_Witness ==
    \E t \in Threads :
        /\ pc[t] = "ret" /\ op[t] = "load" /\ res[t].tag = "Err"
        /\ res[t].code \in TerminalCodes /\ Polls(t) > 1

\* C6: a returned load_async has made exactly one driver call, to
\* LoadRenderModel_Async with its name; a returned load_texture_async has
\* made exactly one, to LoadTexture_Async with the texture identifier of the
\* model it was called on; neither has slept.
C6_AsyncCallsDriverOnce ==
    \A t \in Threads :
        (pc[t] = "ret" /\ op[t] \in NonBlocking) =>
            /\ Len(trace[t]) = 1
            /\ op[t] = "load_async" =>
                  /\ trace[t][1].fn = "LoadRenderModel_Async"
                  /\ trace[t][1].name = arg[t].name
            /\ op[t] = "load_texture_async" =>
                  /\ trace[t][1].fn = "LoadTexture_Async"
                  /\ trace[t][1].num = TexIdOf(mem[handles[arg[t].h].ptr].name)

C6_Witness ==
    \E t \in Threads :
        /\ pc[t] = "ret" /\ op[t] = "load_texture_async"
        /\ trace[t][1].num = 8

\* Thread t runs get_name and has the answer to its size query.
SizeQueried(t) == op[t] = "get_name" /\ Len(trace[t]) >= 1

\* C7: a get_name whose size query, made with buffer length 0, reports the
\* required length 0 returns the empty text after that one driver call.
C7_EmptyEntryOneCall ==
    \A t \in Threads :
        (SizeQueried(t) /\ trace[t][1].ret = 0) =>
            /\ pc[t] = "ret"
            /\ res[t] = Text(<<>>)
            /\ Len(trace[t]) = 1
            /\ trace[t][1].fn = "GetRenderModelName"
            /\ trace[t][1].len = 0

C7_Witness ==
    \E t \in Threads :
        /\ SizeQueried(t) /\ trace[t][1].ret = 0 /\ pc[t] = "ret"
        /\ arg[t].idx = 0

\* C8: a get_name whose size query reports a required length other than 0
\* makes exactly two GetRenderModelName calls for its index, the first with
\* buffer length 0 and the second with the required length the first one
\* reported; when the second reports that same length and the name is
\* well-formed text, a text value is returned, and a text value is returned
\* in no other case.
C8_NonEmptyEntryTwoCalls ==
    \A t \in Threads :
        (SizeQueried(t) /\ trace[t][1].ret # 0) =>
            /\ trace[t][1].fn = "GetRenderModelName"
            /\ trace[t][1].num = arg[t].idx
            /\ trace[t][1].len = 0
            /\ pc[t] = "second" => Len(trace[t]) = 1
            /\ pc[t] # "second" =>
                  /\ pc[t] \in {"ret", "panic"}
                  /\ Len(trace[t]) = 2
                  /\ trace[t][2].fn = "GetRenderModelName"
                  /\ trace[t][2].num = arg[t].idx
                  /\ trace[t][2].len = trace[t][1].ret
                  /\ pc[t] = "ret" <=>
                        /\ trace[t][2].ret = trace[t][1].ret
                        /\ IsUtf8(trace[t][2].name)
                  /\ pc[t] = "ret" => res[t].tag = "Text"

C8_Witness ==
    \E t \in Threads :
        /\ SizeQueried(t) /\ pc[t] = "ret" /\ Len(trace[t]) = 2
        /\ trace[t][1].ret = 3 /\ res[t].tag = "Text"

\* C9: a get_name whose second call reports another length than the size
\* query did ends in a panic and yields no text; it makes no third call.
C9_SizeMismatchIsFatal ==
    \A t \in Threads :
        op[t] = "get_name" =>
            /\ Len(trace[t]) <= 2
            /\ (Len(trace[t]) = 2 /\ trace[t][2].ret # trace[t][1].ret) =>
                  /\ pc[t] = "panic"
                  /\ res[t] = Panic

C9_Witness ==
    /\ \E t \in Threads :
          /\ op[t] = "get_name" /\ pc[t] = "panic" /\ Len(trace[t]) = 2
          /\ trace[t][2].ret < trace[t][1].ret /\ trace[t][2].ret > 0
    /\ \E t \in Threads :
          /\ op[t] = "get_name" /\ pc[t] = "panic" /\ Len(trace[t]) = 2
          /\ trace[t][2].ret > trace[t][1].ret

InLoop(t) == pc[t] \in {"call", "match", "sleep"}

\* The driver's background load of model n has ended: its next answer is
\* success or a terminal code.
Finished(n) ==
    \/ drvModel[n].st = "done"
    \/ drvModel[n].st = "loading" /\ drvModel[n].left = 0

\* The driver's background load of model n has started and will end.
Finishing(n) == drvModel[n].st \in {"loading", "done"}

Definitive(t) ==
    \/ res[t].tag = "Ok" /\ Last(trace[t]).ret = VRRenderModelError_None
    \/ /\ res[t].tag = "Err"
       /\ res[t].code \in TerminalCodes
       /\ Last(trace[t]).ret = res[t].code

\* C5: a load of a name for which the driver answers Loading a bounded number
\* of times and then success or a terminal code eventually returns, with Ok
\* or with Err of a terminal code and nothing else; every poll before the
\* last was answered Loading; and a load of a name for which the driver
\* answers Loading for ever never returns.
C5_PollingEnds ==
    /\ \A t \in Threads :
          (op[t] = "load" /\ InLoop(t) /\ Finishing(arg[t].name))
              ~> (op[t] = "load" /\ pc[t] = "ret" /\ Definitive(t))
    /\ [](\A t \in Threads :
            /\ (op[t] = "load" /\ pc[t] = "ret") =>
                  /\ Definitive(t)
                  /\ \A i \in 1..(Len(trace[t]) - 1) :
                        trace[t][i].fn # "sleep" =>
                            trace[t][i].ret = VRRenderModelError_Loading
            /\ (op[t] = "load" /\ CStringNewOk(arg[t].name)
                /\ drvModel[arg[t].name].st = "hung") => pc[t] # "ret")

C5_Witness ==
    /\ \E t \in Threads :
          /\ op[t] = "load" /\ pc[t] = "ret" /\ res[t].tag = "Ok"
          /\ Polls(t) = MaxLoading + 1
    /\ \E t \in Threads :
          /\ op[t] = "load" /\ InLoop(t) /\ Polls(t) = MaxPolls
          /\ drvModel[arg[t].name].st = "hung"

\* Threads t and u run load for two different names; the driver has finished
\* t's name and answers Loading for ever for u's.
TwoLoads(t, u) ==
    /\ t # u
    /\ op[t] = "load" /\ op[u] = "load"
    /\ InLoop(t) /\ InLoop(u)
    /\ arg[t].name # arg[u].name
    /\ CStringNewOk(arg[t].name) /\ CStringNewOk(arg[u].name)
    /\ Finished(arg[t].name)
    /\ drvModel[arg[u].name].st = "hung"

\* C10: of two concurrent loads of different names, the one whose name the
\* driver has finished returns while the other is still inside its loop, and
\* a thread inside its loop can always take its next step, whatever the other
\* thread is doing.
C10_LoadsDoNotBlockEachOther ==
    /\ \A t \in Threads : \A u \in Threads :
          TwoLoads(t, u) ~> (pc[t] = "ret" /\ Definitive(t)
                             /\ op[u] = "load" /\ InLoop(u))
    /\ [](\A t \in Threads :
            (pc[t] \in {"match", "sleep"} \/ (pc[t] = "call" /\ Polls(t) < MaxPolls))
                => ENABLED Step(t))

C10_Witness ==
    \E t \in Threads : \E u \in Threads :
        /\ t # u
        /\ op[t] = "load" /\ pc[t] = "ret" /\ res[t].tag = "Ok" /\ Polls(t) > 1
        /\ op[u] = "load" /\ InLoop(u) /\ Polls(u) > 1
        /\ arg[t].name # arg[u].name
        /\ drvModel[arg[u].name].st = "hung"

IsIter(v) == v.kind \in {"vertex", "index"}

\* C11: an element of a vertex or index view is read, and the pixels of a
\* texture are copied, only while the owning handle is alive and no release
\* call has been made for it; the block read is then still the driver's.
C11_NoReadAfterRelease ==
    [][\A t \in Threads :
          /\ (IsIter(view[t]) /\ view'[t].pos = view[t].pos + 1) =>
                LET hd == handles[view[t].h]
                IN  /\ hd.alive /\ hd.rel = <<>>
                    /\ mem[hd.ptr].kind = "model" /\ mem[hd.ptr].refs > 0
          /\ (view[t].kind = "none" /\ view'[t].kind = "vec") =>
                LET hd == handles[view'[t].h]
                IN  /\ hd.alive /\ hd.rel = <<>>
                    /\ mem[hd.ptr].kind = "texture" /\ mem[hd.ptr].refs > 0]_vars

C11_Witness ==
    \E t \in Threads :
        /\ view[t].kind = "vertex" /\ view[t].pos = 2
        /\ \E g \in 1..Len(handles) :
              /\ ~handles[g].alive
              /\ handles[g].ptr = handles[view[t].h].ptr

\* The name of the model behind the view of thread t.
ViewedModel(t) == mem[handles[view[t].h].ptr].name

\* C12: a vertex view has as many elements as the model's vertex count and
\* an index view three per triangle; the elements come in the driver's order,
\* so that a view read to its end has yielded the whole array, whichever
\* call of vertex_iter or index_iter made it; and making or reading a view
\* changes neither the handles nor the driver's blocks.
C12_ViewsYieldTheArrays ==
    /\ [](\A t \in Threads :
            /\ view[t].kind = "vertex" =>
                  /\ view[t].len = VertexCount(ViewedModel(t))
                  /\ view[t].pos <= view[t].len
                  /\ view[t].seen = SubSeq(VertexData(ViewedModel(t)), 1, view[t].pos)
            /\ view[t].kind = "index" =>
                  /\ view[t].len = TriangleCount(ViewedModel(t)) * 3
                  /\ view[t].pos <= view[t].len
                  /\ view[t].seen = SubSeq(IndexData(ViewedModel(t)), 1, view[t].pos))
    /\ [][\A t \in Threads :
            (view'[t] # view[t] /\ (IsIter(view[t]) \/ IsIter(view'[t]))) =>
                handles' = handles /\ mem' = mem]_vars

C12_Witness ==
    \E t \in Threads :
        /\ view[t].kind = "index" /\ view[t].pos = 6
        /\ view[t].seen = IndexData(<<98>>)

\* C13: to_vec returns width * height * 4 bytes, the first bytes of the
\* texture's pixel buffer in order, and the copy is not changed by anything
\* done to the handles afterwards, the release of the texture included.
C13_ToVecCopiesThePixels ==
    [][\A t \in Threads :
          /\ (view[t].kind = "none" /\ view'[t].kind = "vec") =>
                LET x == mem[handles[view'[t].h].ptr].tex
                    n == Width(x) * Height(x) * 4
                IN  /\ Len(view'[t].seen) = n
                    /\ view'[t].seen = SubSeq(TextureMapData(x), 1, n)
                    /\ (Width(x) = 2 /\ Height(x) = 2) => Len(view'[t].seen) = 16
          /\ (view[t].kind = "vec" /\ handles' # handles) =>
                view'[t] = view[t]]_vars

C13_Witness ==
    \E t \in Threads :
        /\ view[t].kind = "vec" /\ Len(view[t].seen) = 16
        /\ view[t].seen = TextureMapData(7)
        /\ ~handles[view[t].h].alive

\* The three classes a status code can fall in.
IsSuccess(c) == RenderModelMatch(c) /\ TextureMatch(c)
IsLoadingCode(c) == is_loading(Error_from_raw(c))
IsTerminal(c) == ~IsSuccess(c) /\ ~IsLoadingCode(c)

\* C14: is_loading is true for the Loading code and false for every other
\* code, None and the real failures included, so that no code is both a
\* success and Loading; and the loop of a blocking load, holding an error
\* from the driver, goes to sleep exactly when the driver answered Loading.
C14_IsLoadingOnlyForLoading ==
    /\ \A c \in Codes :
          /\ is_loading(Error_from_raw(c)) = (c = VRRenderModelError_Loading)
          /\ ~(IsSuccess(c) /\ IsLoadingCode(c))
          /\ IsSuccess(c) = (c = VRRenderModelError_None)
          /\ IsTerminal(c) = (c \in TerminalCodes)
    /\ \A t \in Threads :
          (pc[t] = "match" /\ res[t].tag = "Err") =>
              /\ res[t].code = Last(trace[t]).ret
              /\ is_loading(res[t]) = (Last(trace[t]).ret = VRRenderModelError_Loading)
              /\ (MatchResult(res[t]) = "sleep")
                    = (Last(trace[t]).ret = VRRenderModelError_Loading)

C14_Witness ==
    \E t \in Threads :
        /\ pc[t] = "match" /\ res[t].tag = "Err"
        /\ res[t].code \in TerminalCodes
        /\ ~is_loading(res[t])

IsPoll(e) == e.fn \in {"LoadRenderModel_Async", "LoadTexture_Async"}

\* The Loading answers in the trace of thread t.
LoadingAnswers(t) ==
    Cardinality({i \in 1..Len(trace[t]) :
                    IsPoll(trace[t][i]) /\ trace[t][i].ret = VRRenderModelError_Loading})

\* C15: the events of a blocking load alternate poll, sleep, poll, ...: the
\* odd events are driver polls and the even ones sleeps of SleepMillis, each
\* sleep follows a poll answered Loading, and every poll answered Loading is
\* followed by a sleep; the load returns right after the first definitive
\* answer r, with r's outcome, having made k + 1 polls and k sleeps for the k
\* Loading answers before r.
C15_PollSleepAlternate ==
    \A t \in Threads :
        op[t] \in Blocking =>
            LET tr == trace[t]
                k == LoadingAnswers(t)
            IN  /\ \A i \in 1..Len(tr) :
                      IF i % 2 = 1
                      THEN /\ IsPoll(tr[i])
                           /\ i < Len(tr) => tr[i].ret = VRRenderModelError_Loading
                      ELSE tr[i] = Sleep(SleepMillis)
                /\ pc[t] = "call" => Len(tr) = 2 * k
                /\ pc[t] = "sleep" =>
                      Len(tr) = 2 * k - 1 /\ Last(tr).ret = VRRenderModelError_Loading
                /\ pc[t] = "match" => Len(tr) % 2 = 1
                /\ pc[t] = "ret" =>
                      /\ Len(tr) = 2 * k + 1
                      /\ Polls(t) = k + 1
                      /\ Last(tr).ret # VRRenderModelError_Loading
                      /\ IF Last(tr).ret = VRRenderModelError_None
                         THEN res[t].tag = "Ok"
                         ELSE res[t] = Error_from_raw(Last(tr).ret)

C15_Witness ==
    \E t \in Threads :
        /\ pc[t] = "ret" /\ op[t] = "load_texture"
        /\ Len(trace[t]) = 3
        /\ trace[t][1].ret = VRRenderModelError_Loading
        /\ trace[t][2] = Sleep(SleepMillis)
        /\ trace[t][3].ret \in TerminalCodes
        /\ res[t] = Error_from_raw(trace[t][3].ret)

\* The handles that have made their release call.
Dead == {h \in 1..Len(handles) : ~handles[h].alive}

\* The handles built by the loads that succeeded after `a` loads had
\* succeeded and before `b` had.
LoadedBetween(a, b) == (a + 1)..b

\* C16, as first stated: between two release calls on one pointer a load has
\* succeeded and returned that pointer.
C16_LoadBetweenReleases ==
    \A g \in Dead : \A h \in Dead \ {g} :
        (handles[g].ptr = handles[h].ptr /\ handles[g].at <= handles[h].at) =>
            \E k \in LoadedBetween(handles[g].at, handles[h].at) :
                handles[k].ptr = handles[g].ptr

\* C16, amended: every release call is paired with its own earlier
\* successful load that returned the pointer.  A handle makes at most one
\* release call, with its own pointer and after its load; the release calls
\* on a pointer are never more than the loads that returned it; and the
\* driver counts, for each block, one reference per handle not yet released,
\* so that no call reaches a block the driver no longer holds.
C16_ReleasesPairedWithLoads ==
    /\ \A h \in 1..Len(handles) :
          /\ Len(handles[h].rel) <= 1
          /\ h \in Dead => /\ Len(handles[h].rel) = 1
                           /\ handles[h].rel[1].num = handles[h].ptr
                           /\ handles[h].at >= h
    /\ \A p \in Ptrs :
          LET loads == {h \in 1..Len(handles) : handles[h].ptr = p}
              calls == {<<h, i>> \in (1..Len(handles)) \X (1..2) :
                           /\ i <= Len(handles[h].rel)
                           /\ handles[h].rel[i].num = p}
          IN  /\ Cardinality(calls) <= Cardinality(loads)
              /\ mem[p].refs = Cardinality(loads \ Dead)

C16_Witness ==
    \E g \in Dead : \E h \in Dead \ {g} :
        /\ handles[g].ptr = handles[h].ptr
        /\ handles[g].at = handles[h].at
        /\ mem[handles[g].ptr].refs = 0

\* The driver calls thread t has made in its current operation.
DriverCalls(t) == {i \in 1..Len(trace[t]) : trace[t][i].fn # "sleep"}

\* C17: every driver call of an operation goes through the function table
\* of the interface handle the caller holds, and every release call through
\* the table of the interface handle its resource was loaded with.
C17_CallsThroughSuppliedHandle ==
    /\ \A t \in Threads : \A i \in DriverCalls(t) :
          trace[t][i].table = iface[t]
    /\ \A h \in 1..Len(handles) : \A i \in 1..Len(handles[h].rel) :
          handles[h].rel[i].table = iface[handles[h].owner]

\* C18: when the driver reports a required length L >= 1 and fills the
\* buffer of the second call with L bytes, get_name returns the first L - 1
\* of them, the name without its terminator, if they are well-formed UTF-8,
\* and panics if they are not; L - 1 is computed without wrapping, and for
\* L = 1 the text returned is empty.
C18_NameWithoutTerminator ==
    \A t \in Threads :
        (op[t] = "get_name" /\ pc[t] \in {"ret", "panic"} /\ Len(trace[t]) = 2
            /\ trace[t][2].ret = trace[t][1].ret) =>
            LET L == trace[t][1].ret
                name == SubSeq(trace[t][2].name, 1, L - 1)
            IN  /\ L >= 1
                /\ ~Wrapped(SizeWithoutTerminator(L))
                /\ Len(trace[t][2].name) = L
                /\ Last(trace[t][2].name) = 0
                /\ IF IsUtf8(name)
                   THEN /\ pc[t] = "ret"
                        /\ res[t] = Text(name)
                        /\ Len(res[t].text) = L - 1
                        /\ L = 1 => res[t].text = <<>>
                   ELSE pc[t] = "panic" /\ res[t] = Panic

C18_Witness ==
    \E t \in Threads :
        /\ op[t] = "get_name" /\ pc[t] = "ret"
        /\ Len(trace[t]) = 2
        /\ trace[t][1].ret = 1 /\ trace[t][2].ret = 1
        /\ res[t] = Text(<<>>)

\* A NUL byte somewhere in the name.
HasNul(name) == \E i \in 1..Len(name) : name[i] = 0

\* C19: load_async and load, given a name with a NUL byte inside, abort
\* before any driver call: the thread panics with no driver call and no
\* sleep in its trace and no Ok or Err result; the driver never hears of the
\* name, no block is made for it, and no handle of the aborted call exists.
C19_NulNameAbortsBeforeDriver ==
    /\ \A n \in Names : HasNul(n) =>
          /\ drvModel[n] = DrvIdle
          /\ \A p \in Ptrs : mem[p].name # n
    /\ \A t \in Threads :
          (op[t] \in {"load", "load_async"} /\ HasNul(arg[t].name)) =>
              /\ pc[t] \in {"call", "panic"}
              /\ trace[t] = <<>>
              /\ res[t].tag \notin {"Ok", "Err"}
              /\ pc[t] = "panic" => res[t] = Panic
              /\ ~\E h \in 1..Len(handles) :
                     handles[h].owner = t /\ res[t].h = h

C19_Witness ==
    \E t \in Threads :
        /\ op[t] = "load" /\ pc[t] = "panic"
        /\ HasNul(arg[t].name)
        /\ trace[t] = <<>>
        /\ \E h \in 1..Len(handles) : handles[h].alive /\ handles[h].rel = <<>>

Textures == {h \in 1..Len(handles) : handles[h].kind = "texture"}
Models == {h \in 1..Len(handles) : handles[h].kind = "model"}

\* C20: a texture handle has its own block and its own release: while it is
\* alive no release call has been made for it and its block is a live
\* texture block of the driver, whatever has become of the models; once
\* destroyed it has made exactly one FreeTexture call with its own pointer;
\* and the release call of a model destroyed while the texture existed was
\* made on another pointer than the texture's.
C20_TextureOwnedApartFromModel ==
    \A h \in Textures :
        LET hd == handles[h]
        IN  /\ hd.alive => /\ hd.rel = <<>>
                           /\ mem[hd.ptr].kind = "texture"
                           /\ mem[hd.ptr].refs >= 1
            /\ ~hd.alive => /\ Len(hd.rel) = 1
                            /\ hd.rel[1].fn = "FreeTexture"
                            /\ hd.rel[1].num = hd.ptr
            /\ \A g \in Models \cap Dead :
                  (handles[g].at >= h /\ (hd.alive \/ hd.at >= handles[g].at)) =>
                      /\ handles[g].ptr # hd.ptr
                      /\ \A i \in 1..Len(handles[g].rel) :
                            /\ handles[g].rel[i].fn = "FreeRenderModel"
                            /\ handles[g].rel[i].num # hd.ptr

C20_Witness ==
    /\ Len(handles) = 2
    /\ handles[1].kind = "model" /\ ~handles[1].alive
    /\ handles[2].kind = "texture" /\ handles[2].alive
    /\ handles[1].at = 2
    /\ mem[handles[2].ptr].kind = "texture"

====
